---- MODULE Spec2Model ----
(***************************************************************************)
(* Modbus TCP to Modbus RTU gateway (src/modbus-gateway.py).               *)
(*                                                                         *)
(* Threads of the program: the main thread (start_rtu_worker, shutdown),   *)
(* one RTUWorker thread that owns the serial port, and one handler thread  *)
(* per TCP client (ModbusGatewayHandler.handle).  Bytes are integers       *)
(* 0..255, frames are sequences of bytes.                                  *)
(*                                                                         *)
(* Time is counted in ticks of 0.05 s (the default inter_frame_delay).     *)
(* A thread that is not blocked takes its next step before time advances;  *)
(* time passes only while every thread is blocked in a sleep, a serial     *)
(* read, an Event.wait, a queue.get, a socket recv or serial.open().       *)
(***************************************************************************)
EXTENDS Integers, Sequences, FiniteSets, TLC

\* ------------------------------------------------------------------ bounds
NumSessions == 2        \* TCP clients that may connect
MaxFrames == 2          \* MBAP frames the clients send in total

\* ------------------------------------------------- program constants (ticks)
RtuTimeout == 20        \* [ModbusRTU] timeout, default 1.0 s
RetryCount == 3         \* [ModbusRTU] retry_count, default 3
InterFrameDelay == 1    \* [ModbusRTU] inter_frame_delay, default 0.05 s
AwaitSlack == 40        \* rtu_request.wait(timeout=self.rtu_timeout + 2.0)
RecoverySleep == 2      \* time.sleep(0.1) between close() and open()
StartupSleep == 10      \* time.sleep(0.5) in start_rtu_worker

Sessions == 1..NumSessions
Byte == 0..255
None == <<>>            \* Python None for a bytes-valued attribute
NoError == ""           \* Python None for RTURequest.error / last_error

\* --------------------------------------------------------------- sequences
Take(s, n) == SubSeq(s, 1, IF n < Len(s) THEN n ELSE Len(s))
Drop(s, n) == SubSeq(s, n + 1, Len(s))
SetMin(S) == CHOOSE x \in S : \A y \in S : x <= y

\* ------------------------------------------------------------------ CRC-16
RECURSIVE Xor(_, _)
Xor(a, b) ==
  IF a = 0 THEN b
  ELSE IF b = 0 THEN a
  ELSE (((a % 2) + (b % 2)) % 2) + (2 * Xor(a \div 2, b \div 2))

\* "for _ in range(8)": n shifts of the 16-bit register
RECURSIVE CrcShift(_, _)
CrcShift(crc, n) ==
  IF n = 0 THEN crc
  ELSE LET shifted == IF crc % 2 = 1 THEN Xor(crc \div 2, 40961) ELSE crc \div 2
       IN  IF shifted >= 0 THEN CrcShift(shifted, n - 1) ELSE 0

\* "for byte in data": bytes i.. of data folded into the register
RECURSIVE CrcFold(_, _, _)
CrcFold(crc, data, i) ==
  IF i > Len(data) THEN crc
  ELSE LET folded == CrcShift(Xor(crc, data[i]), 8)
       IN  IF folded >= 0 THEN CrcFold(folded, data, i + 1) ELSE 0

\* struct.pack('<H', crc): low byte first
crc16_calculate(data) ==
  LET crc == CrcFold(65535, data, 1) IN << crc % 256, crc \div 256 >>

\* a verification that compares the low CRC byte only
crc16_verify_low_byte(data) ==
  IF Len(data) < 3 THEN FALSE
  ELSE data[Len(data) - 1] = crc16_calculate(SubSeq(data, 1, Len(data) - 2))[1]

\* a verification that accepts every frame
crc16_verify_any(data) == TRUE

\* crc16_verify: recompute over data[:-2], compare with data[-2:]
crc16_verify(data) ==
  IF Len(data) < 3 THEN FALSE
  ELSE LET message == SubSeq(data, 1, Len(data) - 2)
           received_crc == SubSeq(data, Len(data) - 1, Len(data))
       IN  received_crc = crc16_calculate(message)

\* -------------------------------------------------------------------- MBAP
\* struct.pack('>HHHB', transaction_id, 0, length, unit_id) + pdu
MbapEncode(transaction_id, unit_id, pdu) ==
  LET length == Len(pdu) + 1
  IN  << transaction_id \div 256, transaction_id % 256, 0, 0,
         length \div 256, length % 256, unit_id >> \o pdu

\* an exception PDU that leaves the function code as it is
ExceptionPduUnflagged(request_pdu, exception_code) ==
  << request_pdu[1], exception_code >>

\* struct.pack('BB', function_code | 0x80, exception_code)
ExceptionPdu(request_pdu, exception_code) ==
  LET function_code == request_pdu[1]
  IN  << IF function_code >= 128 THEN function_code ELSE function_code + 128,
         exception_code >>

\* a parser that takes the transaction id low byte first
ParseHeaderLowFirst(h) ==
  [ transaction_id |-> (h[2] * 256) + h[1],
    protocol_id    |-> (h[3] * 256) + h[4],
    length         |-> (h[5] * 256) + h[6],
    unit_id        |-> h[7] ]

\* the fields handle() unpacks from the 7 header bytes
ParseHeader(h) ==
  [ transaction_id |-> (h[1] * 256) + h[2],
    protocol_id    |-> (h[3] * 256) + h[4],
    length         |-> (h[5] * 256) + h[6],
    unit_id        |-> h[7] ]

\* the two validations of handle(); a rejected header takes "continue"
HeaderAccepted(h) ==
  LET f == ParseHeader(h)
      pdu_length == f.length - 1
  IN  /\ f.protocol_id = 0
      /\ ~ (pdu_length < 1 \/ pdu_length > 253)

\* ------------------------------------------------------- RTU response read
\* get_response_length: 4 for the fixed echoes, None (here -1) otherwise
get_response_length(function_code, request_pdu) ==
  IF function_code \in {5, 6, 15, 16} THEN 4 ELSE -1

\* read_rtu_response over the bytes the device delivers within the read
\* timeout.  Each serial.read(n) returns the next n bytes, or fewer when the
\* timeout expires first.  Result: the PDU or None, whether a read came
\* back short (the attempt then lasted the whole serial timeout), and the
\* number of bytes the reads returned.
read_rtu_response(avail, request_pdu) ==
  LET header == Take(avail, 2)
      Short(got) == [ response |-> None, short |-> TRUE, nread |-> Len(got) ]
      Checked(response) ==
        IF ~ crc16_verify(response)
        THEN [ response |-> None, short |-> FALSE, nread |-> Len(response) ]
        ELSE [ response |-> SubSeq(response, 2, Len(response) - 2),
               short |-> FALSE, nread |-> Len(response) ]
  IN
  IF Len(header) < 2 THEN Short(header)
  ELSE
    LET function_code == header[2] IN
    IF function_code >= 128
    THEN LET remaining == Take(Drop(avail, 2), 3) IN
         IF Len(remaining) < 3 THEN Short(header \o remaining)
         ELSE Checked(header \o remaining)
    ELSE
      LET data_length == get_response_length(function_code, request_pdu) IN
      IF data_length = -1
      THEN LET byte_count_raw == Take(Drop(avail, 2), 1) IN
           IF Len(byte_count_raw) < 1 THEN Short(header)
           ELSE LET byte_count == byte_count_raw[1]
                    remaining == Take(Drop(avail, 3), byte_count + 2) IN
                IF Len(remaining) < byte_count + 2
                THEN Short(header \o byte_count_raw \o remaining)
                ELSE Checked(header \o byte_count_raw \o remaining)
      ELSE LET remaining == Take(Drop(avail, 2), data_length + 2) IN
           IF Len(remaining) < data_length + 2 THEN Short(header \o remaining)
           ELSE Checked(header \o remaining)

\* process_request: [Unit ID (1)] [PDU (n)] [CRC (2)]
RtuFrame(unit_id, pdu) ==
  LET body == << unit_id >> \o pdu IN body \o crc16_calculate(body)

\* ------------------------------------------------------------- environment
\* Frames a TCP client sends: a read (scenario S1), a write (S2, another
\* unit), a frame with protocol id 1 (S5) and a header with length 0.
ReadFrame == MbapEncode(1, 17, << 3, 0, 107, 0, 3 >>)
WriteFrame == MbapEncode(2, 18, << 6, 0, 1, 0, 3 >>)
BadProtoFrame == << 0, 5, 0, 1, 0, 6, 17, 3, 0, 107, 0, 3 >>
BadLengthFrame == << 0, 7, 0, 0, 0, 0, 17 >>
ClientFrames == { ReadFrame, WriteFrame, BadProtoFrame, BadLengthFrame }

\* What may arrive on the serial line after a write: nothing, the normal
\* reply to the read or to the write, an exception reply, or the read reply
\* with a damaged CRC byte.
Damaged(frame) ==
  [ frame EXCEPT ![Len(frame)] = (frame[Len(frame)] + 1) % 256 ]
ReadReply == RtuFrame(17, << 3, 2, 0, 100 >>)
WriteReply == RtuFrame(18, << 6, 0, 1, 0, 3 >>)
ExceptionReply == RtuFrame(17, << 131, 2 >>)
WireReplies == { <<>>, ReadReply, WriteReply, ExceptionReply, Damaged(ReadReply) }

\* read_rtu_response for every byte string the line may deliver
\* (get_response_length does not look at the request PDU)
ReadOutcome == [ avail \in WireReplies |-> read_rtu_response(avail, <<>>) ]

\* the RTU frames of the requests the client frames above carry, computed once
RtuFrames ==
  [ r \in { << f[7], Drop(f, 7) >> :
              f \in { g \in ClientFrames : HeaderAccepted(Take(g, 7)) } }
      |-> RtuFrame(r[1], r[2]) ]
RtuFrameOf(unit_id, pdu) ==
  IF << unit_id, pdu >> \in DOMAIN RtuFrames
  THEN RtuFrames[<< unit_id, pdu >>] ELSE RtuFrame(unit_id, pdu)

\* ------------------------------------------------------------------- state
VARIABLES
  spc,        \* main thread: "init", "sleeping", "serving", "raised", "shutdown"
  stimer,     \* ticks left of the sleep in start_rtu_worker
  wpc,        \* RTUWorker thread: "new", "setup", "dead", "loop", "get",
              \* "attempt", "try", "read", "recover", "exited"
  running,    \* RTUWorker.running
  serialOpen, \* RTUWorker.serial.is_open
  wcur,       \* the request process_request is executing (its number), 0 if none
  rtu_frame,  \* local rtu_frame of process_request
  attempt,    \* loop variable of "for attempt in range(self.retry_count)"
  last_error, \* local last_error of process_request
  nwrites,    \* serial.write calls made so far for the request being executed
  wtimer,     \* ticks left of the worker's current sleep or timed-out read
  busLast,    \* number of the request whose frame was written last, 0 if none
  queue,      \* ThreadedModbusServer.rtu_queue: request numbers, oldest first
  txns,       \* the RTURequest objects, numbered in the order of their put
  pc,         \* handler thread per session
  rx,         \* bytes the client has sent and the handler has not yet read
  hdr,        \* header fields parsed by handle() while it reads the body
  cur,        \* rtu_request of the handler (its number), 0 if none
  waited,     \* ticks the handler has spent in rtu_request.wait
  outgoing,   \* the response frame the handler is about to sendall
  sent,       \* number of frames handed to sendall, per session
  nframes,    \* frames the clients have sent so far
  probe       \* arguments and result of a codec function evaluated on its
              \* own (crc16_*, the MBAP codec, read_rtu_response); Idle
              \* while the gateway itself runs

programVars ==
  << spc, stimer, wpc, running, serialOpen, wcur, rtu_frame, attempt,
     last_error, nwrites, wtimer, busLast, queue, txns, pc, rx, hdr,
     cur, waited, outgoing, sent, nframes >>
vars == << programVars, probe >>

serverVars == << spc, stimer >>
workerVars == << wpc, running, serialOpen, wcur, rtu_frame, attempt,
                 last_error, nwrites, wtimer, busLast >>
sessionVars == << pc, rx, hdr, cur, waited, outgoing, sent >>

Idle == [ kind |-> "none" ]
NoHeader == [ transaction_id |-> 0, unit_id |-> 0, pdu_length |-> 0 ]
AwaitMax == RtuTimeout + AwaitSlack

\* RTURequest.__init__; waitResult is what rtu_request.wait returned to the
\* handler ("waiting" while it has not returned)
RTURequest(owner, transaction_id, unit_id, pdu) ==
  [ owner |-> owner, transaction_id |-> transaction_id, unit_id |-> unit_id,
    pdu |-> pdu, response |-> None, error |-> NoError, event |-> FALSE,
    waitResult |-> "waiting", live |-> TRUE ]

\* an RTURequest nothing refers to any more
Collected ==
  [ owner |-> 0, transaction_id |-> 0, unit_id |-> 0, pdu |-> <<>>,
    response |-> None, error |-> NoError, event |-> FALSE,
    waitResult |-> "waiting", live |-> FALSE ]

\* a response that lands in whatever request the owner waits for now
set_response_on_session(r, response) ==
  LET target == IF cur[txns[r].owner] # 0 THEN cur[txns[r].owner] ELSE r
  IN  [ txns EXCEPT ![target].response = response, ![target].event = TRUE ]

\* RTURequest.set_response on request r
set_response(r, response) ==
  [ txns EXCEPT ![r].response = response, ![r].event = TRUE ]

\* a completion that lands in whatever request the owner waits for now
set_error_on_session(r, error_msg) ==
  LET target == IF cur[txns[r].owner] # 0 THEN cur[txns[r].owner] ELSE r
  IN  [ txns EXCEPT ![target].error = error_msg, ![target].event = TRUE ]

\* RTURequest.set_error on request r
set_error(r, error_msg) ==
  [ txns EXCEPT ![r].error = error_msg, ![r].event = TRUE ]

\* Requests are kept while the queue, the worker or a handler refers to them
Sweep(t, q, w, c) ==
  [ i \in DOMAIN t |->
      IF i = w \/ (\E k \in DOMAIN q : q[k] = i) \/ (\E s \in Sessions : c[s] = i)
      THEN t[i] ELSE Collected ]

InitProgram ==
  /\ spc = "init" /\ stimer = 0
  /\ wpc = "new" /\ running = FALSE /\ serialOpen = FALSE
  /\ wcur = 0 /\ rtu_frame = <<>> /\ attempt = 0 /\ last_error = NoError
  /\ nwrites = 0 /\ wtimer = 0 /\ busLast = 0
  /\ queue = <<>> /\ txns = <<>>
  /\ pc = [ s \in Sessions |-> "NotConnected" ]
  /\ rx = [ s \in Sessions |-> <<>> ]
  /\ hdr = [ s \in Sessions |-> NoHeader ]
  /\ cur = [ s \in Sessions |-> 0 ]
  /\ waited = [ s \in Sessions |-> 0 ]
  /\ outgoing = [ s \in Sessions |-> <<>> ]
  /\ sent = [ s \in Sessions |-> 0 ]
  /\ nframes = 0

Init == InitProgram /\ probe = Idle

\* ------------------------------------------------------------- main thread
\* start_rtu_worker: RTUWorker(...).start(), then time.sleep(0.5)
StartRtuWorker ==
  /\ spc = "init"
  /\ spc' = "sleeping" /\ stimer' = StartupSleep
  /\ wpc' = "setup"
  /\ UNCHANGED << probe, running, serialOpen, wcur, rtu_frame, attempt, last_error,
                  nwrites, wtimer, busLast, queue, txns, sessionVars, nframes >>

\* rtu_worker.is_alive(): false only once run() has returned
WorkerIsAlive == wpc \notin {"dead", "exited"}

\* start_rtu_worker after the sleep: raise RuntimeError, or return to main,
\* which goes on to serve_forever
CheckAlive ==
  /\ spc = "sleeping" /\ stimer = 0
  /\ spc' = IF ~ WorkerIsAlive THEN "raised" ELSE "serving"
  /\ UNCHANGED << probe, stimer, workerVars, queue, txns, sessionVars, nframes >>

\* shutdown (KeyboardInterrupt in serve_forever): rtu_worker.stop()
Shutdown ==
  /\ spc = "serving"
  /\ spc' = "shutdown"
  /\ running' = FALSE
  /\ UNCHANGED << probe, stimer, wpc, serialOpen, wcur, rtu_frame, attempt,
                  last_error, nwrites, wtimer, busLast, queue, txns,
                  sessionVars, nframes >>

\* ------------------------------------------------------------- RTU worker
\* run: setup_serial() opens the port or fails; on failure run returns
WorkerSetup ==
  /\ wpc = "setup"
  /\ \E opened \in BOOLEAN :
       IF opened
       THEN /\ serialOpen' = TRUE /\ running' = TRUE /\ wpc' = "loop"
       ELSE /\ wpc' = "dead" /\ UNCHANGED << running, serialOpen >>
  /\ UNCHANGED << probe, serverVars, wcur, rtu_frame, attempt, last_error, nwrites,
                  wtimer, busLast, queue, txns, sessionVars, nframes >>

\* run: "while self.running:", and the cleanup after the loop
WorkerLoop ==
  /\ wpc = "loop"
  /\ IF running
     THEN wpc' = "get" /\ UNCHANGED serialOpen
     ELSE wpc' = "exited" /\ serialOpen' = FALSE
  /\ UNCHANGED << probe, serverVars, running, wcur, rtu_frame, attempt, last_error,
                  nwrites, wtimer, busLast, queue, txns, sessionVars, nframes >>

\* a worker that fetches the next request while a read is still pending
WorkerDequeuesEarly == wpc \in {"get", "read"}

\* run: the worker calls request_queue.get only between two process_request
WorkerMayDequeue == wpc = "get"

\* a queue that hands out the newest entry
QueueGetNewest(q) == Len(q)

\* Queue.get removes the oldest entry
QueueGetIndex(q) == 1
QueueRemove(q, i) == SubSeq(q, 1, i - 1) \o SubSeq(q, i + 1, Len(q))
\* Queue.put appends
QueuePut(q, r) == Append(q, r)

\* run: request = self.request_queue.get(timeout=0.5); process_request
\* builds rtu_frame and enters its retry loop
WorkerGet ==
  /\ WorkerMayDequeue
  /\ queue # <<>>
  /\ LET request == queue[QueueGetIndex(queue)] IN
       /\ wcur' = request
       /\ rtu_frame' = RtuFrameOf(txns[request].unit_id, txns[request].pdu)
  /\ queue' = QueueRemove(queue, QueueGetIndex(queue))
  /\ wpc' = "attempt" /\ attempt' = 0 /\ last_error' = NoError
  /\ nwrites' = 0 /\ wtimer' = 0
  /\ UNCHANGED << probe, serverVars, running, serialOpen, busLast, txns, sessionVars,
                  nframes >>

\* run: "except Empty: continue"
WorkerPollEmpty ==
  /\ wpc = "get"
  /\ queue = <<>>
  /\ wpc' = "loop"
  /\ UNCHANGED << probe, serverVars, running, serialOpen, wcur, rtu_frame, attempt,
                  last_error, nwrites, wtimer, busLast, queue, txns,
                  sessionVars, nframes >>

\* process_request returns to run(): its locals are gone, the request is
\* kept only if its handler still waits for it
Return(completed) ==
  /\ txns' = Sweep(completed, queue, 0, cur)
  /\ wpc' = "loop" /\ wcur' = 0 /\ rtu_frame' = <<>>
  /\ attempt' = 0 /\ last_error' = NoError /\ nwrites' = 0 /\ wtimer' = 0

\* process_request: top of "for attempt in range(self.retry_count)", with
\* the sleep before a retry; after the last attempt, set_error
BeginAttempt ==
  /\ wpc = "attempt" /\ wtimer = 0
  /\ IF attempt < RetryCount
     THEN /\ wpc' = "try"
          /\ wtimer' = IF attempt > 0 THEN InterFrameDelay ELSE 0
          /\ UNCHANGED << txns, wcur, rtu_frame, attempt, last_error, nwrites >>
     ELSE Return(set_error(wcur, IF last_error # NoError THEN last_error
                                 ELSE "RTU timeout"))
  /\ UNCHANGED << probe, serverVars, running, serialOpen, busLast, queue,
                  sessionVars, nframes >>

\* a serial error that ends the worker thread
SerialFailureFatal ==
  /\ last_error' = "Serial error"
  /\ serialOpen' = FALSE
  /\ wtimer' = 0
  /\ wpc' = "dead"

\* process_request: "except serial.SerialException": close(), sleep(0.1)
SerialFailure ==
  /\ last_error' = "Serial error"
  /\ serialOpen' = FALSE
  /\ wtimer' = RecoverySleep
  /\ wpc' = "recover"

\* process_request: open if closed, reset_input_buffer, write, then
\* time.sleep(inter_frame_delay); any of the serial calls may raise
TryWrite ==
  /\ wpc = "try" /\ wtimer = 0
  /\ \E raises \in BOOLEAN :
       IF raises
       THEN SerialFailure /\ UNCHANGED << busLast, nwrites >>
       ELSE /\ serialOpen' = TRUE
            /\ busLast' = wcur
            /\ nwrites' = nwrites + 1
            /\ wtimer' = InterFrameDelay
            /\ wpc' = "read"
            /\ UNCHANGED last_error
  /\ UNCHANGED << probe, serverVars, running, wcur, rtu_frame, attempt, queue, txns,
                  sessionVars, nframes >>

\* process_request: "if response_pdu is not None: set_response, return";
\* otherwise the loop goes on to the next attempt
AttemptOutcome(r) ==
  IF r.response # None
  THEN /\ Return(set_response(wcur, r.response))
       /\ UNCHANGED serialOpen
  ELSE /\ attempt' = attempt + 1
       /\ wtimer' = IF r.short THEN RtuTimeout ELSE 0
       /\ wpc' = "attempt"
       /\ UNCHANGED << txns, wcur, rtu_frame, last_error, nwrites, serialOpen >>

\* process_request: response = self.read_rtu_response(request)
ReadResponse ==
  /\ wpc = "read" /\ wtimer = 0
  /\ \/ /\ SerialFailure
        /\ UNCHANGED << txns, wcur, rtu_frame, attempt, nwrites >>
     \/ \E avail \in WireReplies : AttemptOutcome(ReadOutcome[avail])
  /\ UNCHANGED << probe, serverVars, running, busLast, queue, sessionVars, nframes >>

\* a recovery that does not count the failed attempt
ReopenUncounted ==
  /\ wpc = "recover" /\ wtimer = 0
  /\ \E opened \in BOOLEAN : serialOpen' = opened
  /\ wpc' = "attempt"
  /\ UNCHANGED << probe, serverVars, running, wcur, rtu_frame, attempt, last_error,
                  nwrites, wtimer, busLast, queue, txns, sessionVars, nframes >>

\* process_request: the open() of the recovery, its failure swallowed
Reopen ==
  /\ wpc = "recover" /\ wtimer = 0
  /\ \E opened \in BOOLEAN : serialOpen' = opened
  /\ attempt' = attempt + 1
  /\ wpc' = "attempt"
  /\ UNCHANGED << probe, serverVars, running, wcur, rtu_frame, last_error, nwrites,
                  wtimer, busLast, queue, txns, sessionVars, nframes >>

\* ---------------------------------------------------------------- sessions
\* serve_forever accepts a client: a handler thread starts handle()
Accept(s) ==
  /\ spc = "serving"
  /\ pc[s] = "NotConnected"
  /\ pc' = [ pc EXCEPT ![s] = "ReadingHeader" ]
  /\ UNCHANGED << probe, serverVars, workerVars, queue, txns, rx, hdr, cur,
                  waited, outgoing, sent, nframes >>

\* the client of session s sends one more frame while the handler is
\* blocked in recv
ClientSend(s) ==
  /\ pc[s] \in {"ReadingHeader", "ReadingBody"}
  /\ Len(rx[s]) < 7
  /\ nframes < MaxFrames
  /\ \E f \in ClientFrames : rx' = [ rx EXCEPT ![s] = rx[s] \o f ]
  /\ nframes' = nframes + 1
  /\ UNCHANGED << probe, serverVars, workerVars, queue, txns, pc, hdr, cur,
                  waited, outgoing, sent >>

\* handle: recv_exact(7), parse, validate; a rejected header takes "continue"
RecvHeader(s) ==
  /\ pc[s] = "ReadingHeader"
  /\ Len(rx[s]) >= 7
  /\ LET mbap_header == Take(rx[s], 7)
         f == ParseHeader(mbap_header)
     IN  /\ rx' = [ rx EXCEPT ![s] = Drop(rx[s], 7) ]
         /\ IF HeaderAccepted(mbap_header)
            THEN /\ pc' = [ pc EXCEPT ![s] = "ReadingBody" ]
                 /\ hdr' = [ hdr EXCEPT ![s] =
                      [ transaction_id |-> f.transaction_id,
                        unit_id |-> f.unit_id,
                        pdu_length |-> f.length - 1 ] ]
            ELSE UNCHANGED << pc, hdr >>
  /\ UNCHANGED << probe, serverVars, workerVars, queue, txns, cur, waited,
                  outgoing, sent, nframes >>

\* handle: recv_exact(pdu_length), RTURequest(...), rtu_queue.put, then wait
RecvBody(s) ==
  /\ pc[s] = "ReadingBody"
  /\ Len(rx[s]) >= hdr[s].pdu_length
  /\ LET pdu == Take(rx[s], hdr[s].pdu_length)
         rtu_request == Len(txns) + 1
     IN  /\ rx' = [ rx EXCEPT ![s] = Drop(rx[s], hdr[s].pdu_length) ]
         /\ txns' = Append(txns, RTURequest(s, hdr[s].transaction_id,
                                            hdr[s].unit_id, pdu))
         /\ queue' = QueuePut(queue, rtu_request)
         /\ cur' = [ cur EXCEPT ![s] = rtu_request ]
  /\ hdr' = [ hdr EXCEPT ![s] = NoHeader ]
  /\ waited' = [ waited EXCEPT ![s] = 0 ]
  /\ pc' = [ pc EXCEPT ![s] = "AwaitingBus" ]
  /\ UNCHANGED << probe, serverVars, workerVars, outgoing, sent, nframes >>

\* handle: recv_exact returns None (peer closed, socket timeout or error)
RecvFail(s) ==
  /\ \/ pc[s] = "ReadingHeader" /\ Len(rx[s]) < 7
     \/ pc[s] = "ReadingBody" /\ Len(rx[s]) < hdr[s].pdu_length
  /\ pc' = [ pc EXCEPT ![s] = "Closed" ]
  /\ hdr' = [ hdr EXCEPT ![s] = NoHeader ]
  /\ rx' = [ rx EXCEPT ![s] = <<>> ]
  /\ UNCHANGED << probe, serverVars, workerVars, queue, txns, cur,
                  waited, outgoing, sent, nframes >>

\* a handler that finds its request by transaction id among all requests
AwaitedByTransactionId(s) ==
  CHOOSE i \in DOMAIN txns :
    /\ txns[i].live /\ txns[i].transaction_id = txns[cur[s]].transaction_id
    /\ \A j \in DOMAIN txns :
         (txns[j].live /\ txns[j].transaction_id = txns[cur[s]].transaction_id)
           => i <= j

\* handle: the request object whose outcome the handler reads
AwaitedRequest(s) == cur[s]

\* a wait without timeout
WaitNeverExpires(s) == FALSE

\* handle: rtu_request.wait(timeout=self.rtu_timeout + 2.0) gives up
WaitExpired(s) == waited[s] >= AwaitMax

\* handle: wait returned True; exception 0x0B if error is set, else the
\* response PDU, under the transaction and unit id of the request just read
AwaitDone(s) ==
  /\ pc[s] = "AwaitingBus"
  /\ txns[AwaitedRequest(s)].event
  /\ LET rtu_request == txns[AwaitedRequest(s)]
         transaction_id == txns[cur[s]].transaction_id
         unit_id == txns[cur[s]].unit_id
         pdu == txns[cur[s]].pdu
     IN  outgoing' = [ outgoing EXCEPT ![s] =
           IF rtu_request.error # NoError
           THEN MbapEncode(transaction_id, unit_id, ExceptionPdu(pdu, 11))
           ELSE MbapEncode(transaction_id, unit_id, rtu_request.response) ]
  /\ txns' = [ txns EXCEPT ![cur[s]].waitResult = "completed" ]
  /\ pc' = [ pc EXCEPT ![s] = "Writing" ]
  /\ waited' = [ waited EXCEPT ![s] = 0 ]
  /\ UNCHANGED << probe, serverVars, workerVars, queue, rx, hdr, cur, sent, nframes >>

\* a handler that goes back to reading without answering an expired wait
AwaitTimeoutSilent(s) ==
  /\ pc[s] = "AwaitingBus"
  /\ WaitExpired(s)
  /\ txns' = Sweep([ txns EXCEPT ![cur[s]].waitResult = "timeout" ], queue, wcur,
                   [ cur EXCEPT ![s] = 0 ])
  /\ cur' = [ cur EXCEPT ![s] = 0 ]
  /\ waited' = [ waited EXCEPT ![s] = 0 ]
  /\ pc' = [ pc EXCEPT ![s] = "ReadingHeader" ]
  /\ UNCHANGED << probe, serverVars, workerVars, queue, rx, hdr, outgoing, sent,
                  nframes >>

\* handle: wait returned False; exception 0x0B, the request is abandoned
AwaitTimeout(s) ==
  /\ pc[s] = "AwaitingBus"
  /\ WaitExpired(s)
  /\ LET rtu_request == txns[cur[s]]
     IN  outgoing' = [ outgoing EXCEPT ![s] =
           MbapEncode(rtu_request.transaction_id, rtu_request.unit_id,
                      ExceptionPdu(rtu_request.pdu, 11)) ]
  /\ txns' = [ txns EXCEPT ![cur[s]].waitResult = "timeout" ]
  /\ pc' = [ pc EXCEPT ![s] = "Writing" ]
  /\ waited' = [ waited EXCEPT ![s] = 0 ]
  /\ UNCHANGED << probe, serverVars, workerVars, queue, rx, hdr, cur, sent, nframes >>

\* send_response: self.request.sendall(response); back to the loop top,
\* where rtu_request no longer refers to the request
SendResponse(s) ==
  /\ pc[s] = "Writing"
  /\ sent' = [ sent EXCEPT ![s] = sent[s] + 1 ]
  /\ outgoing' = [ outgoing EXCEPT ![s] = <<>> ]
  /\ cur' = [ cur EXCEPT ![s] = 0 ]
  /\ txns' = Sweep(txns, queue, wcur, cur')
  /\ pc' = [ pc EXCEPT ![s] = "ReadingHeader" ]
  /\ UNCHANGED << probe, serverVars, workerVars, queue, rx, hdr, waited, nframes >>

\* -------------------------------------------------------------------- time
ServerReady == spc = "init" \/ (spc = "sleeping" /\ stimer = 0)
WorkerReady ==
  \/ wpc = "loop"
  \/ wpc = "get" /\ queue # <<>>
  \/ wpc \in {"attempt", "try", "read", "recover"} /\ wtimer = 0
SessionReady(s) ==
  \/ pc[s] = "ReadingHeader" /\ Len(rx[s]) >= 7
  \/ pc[s] = "ReadingBody" /\ Len(rx[s]) >= hdr[s].pdu_length
  \/ pc[s] = "AwaitingBus" /\ (txns[AwaitedRequest(s)].event \/ WaitExpired(s))
  \/ pc[s] = "Writing"

\* what is left of every running sleep, read timeout and wait
Timers ==
  { AwaitMax - waited[s] : s \in { t \in Sessions : pc[t] = "AwaitingBus" } }
    \cup (IF wtimer > 0 THEN { wtimer } ELSE {})
    \cup (IF stimer > 0 THEN { stimer } ELSE {})

\* time passes up to the next deadline while every thread is blocked
Advance ==
  /\ ~ ServerReady /\ ~ WorkerReady /\ \A s \in Sessions : ~ SessionReady(s)
  /\ Timers # {}
  /\ LET d == SetMin(Timers) IN
       /\ d > 0
       /\ waited' = [ s \in Sessions |->
            IF pc[s] = "AwaitingBus" THEN waited[s] + d ELSE waited[s] ]
       /\ wtimer' = IF wtimer > 0 THEN wtimer - d ELSE 0
       /\ stimer' = IF stimer > 0 THEN stimer - d ELSE 0
  /\ UNCHANGED << probe, spc, wpc, running, serialOpen, wcur, rtu_frame, attempt,
                  last_error, nwrites, busLast, queue, txns, pc, rx, hdr, cur,
                  outgoing, sent, nframes >>

\* ----------------------------------------------------------- specification
ServerStep == StartRtuWorker \/ CheckAlive \/ Shutdown
WorkerStep ==
  \/ WorkerSetup \/ WorkerLoop \/ WorkerGet \/ WorkerPollEmpty
  \/ BeginAttempt \/ TryWrite \/ ReadResponse \/ Reopen
SessionStep(s) ==
  \/ Accept(s) \/ RecvHeader(s) \/ RecvBody(s) \/ RecvFail(s)
  \/ AwaitDone(s) \/ AwaitTimeout(s) \/ SendResponse(s)

Next ==
  \/ ServerStep
  \/ WorkerStep
  \/ \E s \in Sessions : SessionStep(s) \/ ClientSend(s)
  \/ Advance

Spec == Init /\ [][Next]_vars

\* scheduling: a thread that can run does run, and time does not stand still
\* while the worker polls its empty queue
Fairness ==
  /\ SF_vars(Advance)
  /\ WF_vars(StartRtuWorker \/ CheckAlive)
  /\ WF_vars(WorkerLoop \/ WorkerGet \/ BeginAttempt \/ TryWrite
               \/ ReadResponse \/ Reopen)
  /\ \A s \in Sessions :
       WF_vars(RecvHeader(s) \/ RecvBody(s) \/ AwaitDone(s)
                 \/ AwaitTimeout(s) \/ SendResponse(s))

FairSpec == Spec /\ Fairness

\* ------------------------------------------------------------ CRC on its own
\* bound on the length of the messages, and the byte values they are made of
MaxCrcLen == 2
CrcBytes == { 0, 1, 128, 255 }

RECURSIVE SeqsUpTo(_, _)
SeqsUpTo(S, n) ==
  IF n = 0 THEN { <<>> }
  ELSE LET shorter == SeqsUpTo(S, n - 1)
       IN  shorter \cup { Append(q, x) : q \in shorter, x \in S }

\* messages of 1..MaxCrcLen bytes, and the request frame of scenario S1
CrcMessages ==
  (SeqsUpTo(CrcBytes, MaxCrcLen) \ { <<>> }) \cup { << 17, 3, 0, 107, 0, 3 >> }

RECURSIVE Pow2(_)
Pow2(n) == IF n = 0 THEN 1 ELSE 2 * Pow2(n - 1)

\* frame with bit k inverted (bits counted from 1, least significant first)
FlipBit(frame, k) ==
  LET i == ((k - 1) \div 8) + 1
  IN  [ frame EXCEPT ![i] = Xor(frame[i], Pow2((k - 1) % 8)) ]

CrcInit ==
  /\ InitProgram
  /\ probe \in { [ kind |-> "crc", message |-> m, frame |-> <<>>, flipped |-> 0,
                    verified |-> "pending" ] : m \in CrcMessages }

\* sender: message + crc16_calculate(message), as process_request builds it
CrcAppend ==
  /\ probe.kind = "crc" /\ probe.frame = <<>>
  /\ probe' = [ probe EXCEPT !.frame = probe.message \o crc16_calculate(probe.message) ]
  /\ UNCHANGED programVars

\* the line inverts one bit of the frame
CrcCorrupt ==
  /\ probe.kind = "crc" /\ probe.frame # <<>>
  /\ probe.flipped = 0 /\ probe.verified = "pending"
  /\ \E k \in 1..(8 * Len(probe.frame)) :
       probe' = [ probe EXCEPT !.frame = FlipBit(probe.frame, k), !.flipped = k ]
  /\ UNCHANGED programVars

\* receiver: crc16_verify(frame), as read_rtu_response calls it
CrcVerify ==
  /\ probe.kind = "crc" /\ probe.frame # <<>> /\ probe.verified = "pending"
  /\ probe' = [ probe EXCEPT
                  !.verified = IF crc16_verify(probe.frame) THEN "valid" ELSE "invalid" ]
  /\ UNCHANGED programVars

CrcNext == CrcAppend \/ CrcCorrupt \/ CrcVerify
CrcSpec == CrcInit /\ [][CrcNext]_vars

\* ----------------------------------------------------- MBAP codec on its own
\* bound on the length of the PDUs, besides the longest PDU allowed
MaxPduLen == 2
MbapTxIds == { 0, 1, 255, 256, 4660, 65535 }
MbapUnitIds == { 0, 17, 255 }
MbapPdus ==
  (SeqsUpTo({ 0, 3, 255 }, MaxPduLen) \ { <<>> }) \cup { [ i \in 1..253 |-> 3 ] }

\* the gateway after a successful start, every client connected and no
\* request received yet
InitServing ==
  /\ spc = "serving" /\ stimer = 0
  /\ wpc = "get" /\ running = TRUE /\ serialOpen = TRUE
  /\ wcur = 0 /\ rtu_frame = <<>> /\ attempt = 0 /\ last_error = NoError
  /\ nwrites = 0 /\ wtimer = 0 /\ busLast = 0
  /\ queue = <<>> /\ txns = <<>>
  /\ pc = [ s \in Sessions |-> "ReadingHeader" ]
  /\ rx = [ s \in Sessions |-> <<>> ]
  /\ hdr = [ s \in Sessions |-> NoHeader ]
  /\ cur = [ s \in Sessions |-> 0 ]
  /\ waited = [ s \in Sessions |-> 0 ]
  /\ outgoing = [ s \in Sessions |-> <<>> ]
  /\ sent = [ s \in Sessions |-> 0 ]
  /\ nframes = 0

MbapInit ==
  /\ InitServing
  /\ probe \in { [ kind |-> "mbap", transaction_id |-> t, unit_id |-> u,
                    pdu |-> p, session |-> 0 ] :
                  t \in MbapTxIds, u \in MbapUnitIds, p \in MbapPdus }

\* the frame send_response builds arrives on the socket of session s
MbapLoopback(s) ==
  /\ probe.kind = "mbap" /\ probe.session = 0
  /\ rx' = [ rx EXCEPT ![s] =
               MbapEncode(probe.transaction_id, probe.unit_id, probe.pdu) ]
  /\ probe' = [ probe EXCEPT !.session = s ]
  /\ UNCHANGED << serverVars, workerVars, queue, txns, pc, hdr, cur, waited,
                  outgoing, sent, nframes >>

MbapNext == \E s \in Sessions : MbapLoopback(s) \/ RecvHeader(s) \/ RecvBody(s)
MbapSpec == MbapInit /\ [][MbapNext]_vars

\* ------------------------------------- one request on an idle, open gateway
\* The gateway is serving, the worker is blocked in request_queue.get with the
\* port open, and one client has sent one request frame: the worker starts
\* the request in the instant of its put.  No other frame is sent.
PromptInit ==
  /\ \E s \in Sessions : \E f \in { ReadFrame, WriteFrame } :
       /\ rx = [ t \in Sessions |-> IF t = s THEN f ELSE <<>> ]
       /\ spc = "serving" /\ stimer = 0
       /\ wpc = "get" /\ running = TRUE /\ serialOpen = TRUE
       /\ wcur = 0 /\ rtu_frame = <<>> /\ attempt = 0 /\ last_error = NoError
       /\ nwrites = 0 /\ wtimer = 0 /\ busLast = 0
       /\ queue = <<>> /\ txns = <<>>
       /\ pc = [ t \in Sessions |-> "ReadingHeader" ]
       /\ hdr = [ t \in Sessions |-> NoHeader ]
       /\ cur = [ t \in Sessions |-> 0 ]
       /\ waited = [ t \in Sessions |-> 0 ]
       /\ outgoing = [ t \in Sessions |-> <<>> ]
       /\ sent = [ t \in Sessions |-> 0 ]
       /\ nframes = 1
  /\ probe = Idle

PromptNext ==
  \/ WorkerLoop \/ WorkerGet \/ WorkerPollEmpty
  \/ BeginAttempt \/ TryWrite \/ ReadResponse \/ Reopen
  \/ \E s \in Sessions :
       RecvHeader(s) \/ RecvBody(s) \/ AwaitDone(s) \/ AwaitTimeout(s)
         \/ SendResponse(s)
  \/ Advance

PromptSpec == PromptInit /\ [][PromptNext]_vars

\* ------------------------------------- a rejected frame on an open session
\* The gateway is serving and one client has sent, back to back, a frame
\* whose header the handler rejects and possibly a well-formed request.  The
\* rejected frames are the two of the environment and one with protocol
\* id 1 whose 12 body bytes are themselves laid out like a request frame.
\* probe keeps the frames as the client sent them.
NestedFrame ==
  << 0, 9, 0, 1, 0, 13, 17 >> \o MbapEncode(7, 18, << 6, 0, 1, 0, 9 >>)
RejectedFrames == { BadProtoFrame, BadLengthFrame, NestedFrame }
FollowingFrames == { <<>>, ReadFrame, WriteFrame }

FramingInit ==
  /\ \E s \in Sessions : \E f1 \in RejectedFrames : \E f2 \in FollowingFrames :
       /\ rx = [ t \in Sessions |-> IF t = s THEN f1 \o f2 ELSE <<>> ]
       /\ probe = [ kind |-> "stream", session |-> s, frames |-> << f1, f2 >> ]
  /\ spc = "serving" /\ stimer = 0
  /\ wpc = "get" /\ running = TRUE /\ serialOpen = TRUE
  /\ wcur = 0 /\ rtu_frame = <<>> /\ attempt = 0 /\ last_error = NoError
  /\ nwrites = 0 /\ wtimer = 0 /\ busLast = 0
  /\ queue = <<>> /\ txns = <<>>
  /\ pc = [ t \in Sessions |-> "ReadingHeader" ]
  /\ hdr = [ t \in Sessions |-> NoHeader ]
  /\ cur = [ t \in Sessions |-> 0 ]
  /\ waited = [ t \in Sessions |-> 0 ]
  /\ outgoing = [ t \in Sessions |-> <<>> ]
  /\ sent = [ t \in Sessions |-> 0 ]
  /\ nframes = MaxFrames

FramingNext ==
  \/ WorkerLoop \/ WorkerGet \/ WorkerPollEmpty
  \/ BeginAttempt \/ TryWrite \/ ReadResponse \/ Reopen
  \/ \E s \in Sessions :
       RecvHeader(s) \/ RecvBody(s) \/ RecvFail(s) \/ AwaitDone(s)
         \/ AwaitTimeout(s) \/ SendResponse(s)
  \/ Advance

FramingSpec == FramingInit /\ [][FramingNext]_vars

\* ------------------------------------------------------------------ claims
Range(q) == { q[k] : k \in DOMAIN q }

\* requests taken from the queue and not yet completed
Outstanding ==
  { i \in DOMAIN txns : txns[i].live /\ ~ txns[i].event /\ i \notin Range(queue) }

\* C1: at most one transaction is outstanding on the bus: the only request
\* that is dequeued and not completed is the one process_request executes,
\* a frame is on the bus only for that request, and the serial port state
\* changes only in steps of the worker thread.
C1_SingleMaster ==
  /\ [] ( /\ Cardinality(Outstanding) <= 1
          /\ Outstanding = (IF wcur # 0 THEN { wcur } ELSE {})
          /\ (wpc \in {"attempt", "try", "read", "recover"} <=> wcur # 0)
          /\ (nwrites > 0 => busLast = wcur) )
  /\ [][ (serialOpen' # serialOpen \/ busLast' # busLast \/ nwrites' # nwrites)
           => WorkerStep ]_vars

\* C1 witness: a frame of one request is on the bus while a request of
\* another session waits in the queue.
C1_Witness ==
  /\ wpc = "read" /\ nwrites > 0 /\ queue # <<>>
  /\ txns[queue[1]].owner # txns[wcur].owner

\* C2: requests reach the bus in the order of their put: the queue is in
\* put order, every queued request was put after the request being executed
\* and after the request whose frame was written last, and the request being
\* executed is not older than the last one written.
C2_FifoOnBus ==
  /\ \A k \in DOMAIN queue : \A m \in DOMAIN queue : k < m => queue[k] < queue[m]
  /\ \A k \in DOMAIN queue : queue[k] > busLast /\ queue[k] > wcur
  /\ wcur # 0 => wcur >= busLast

\* C2 witness: the first request is written a second time (a retry) while
\* the second request is still queued behind it.
C2_Witness == wcur = 1 /\ nwrites = 2 /\ queue = << 2 >>

\* the MBAP frame a handler may send for request r: its outcome, or the
\* gateway exception built from its function code
OwnFrames(r) ==
  { MbapEncode(r.transaction_id, r.unit_id,
               << (r.pdu[1] % 128) + 128, 11 >>) }
  \cup (IF r.response # None
        THEN { MbapEncode(r.transaction_id, r.unit_id, r.response) } ELSE {})

\* C3: the frame a handler is about to send carries the transaction id and
\* unit id of the request this session read last, and its PDU is that
\* request's own response or the exception for its function code.
C3_TransactionIdIsolation ==
  \A s \in Sessions :
    pc[s] = "Writing" =>
      LET r == txns[cur[s]]
          h == ParseHeader(Take(outgoing[s], 7))
      IN  /\ r.owner = s
          /\ h.transaction_id = r.transaction_id
          /\ h.unit_id = r.unit_id
          /\ outgoing[s] \in OwnFrames(r)

\* C3 witness: a handler sends a normal response while another session has a
\* request with the same transaction id that has no response.
C3_Witness ==
  \E s \in Sessions : \E t \in Sessions :
    /\ s # t /\ pc[s] = "Writing" /\ cur[t] # 0
    /\ txns[cur[t]].transaction_id = txns[cur[s]].transaction_id
    /\ txns[cur[s]].response # None /\ txns[cur[t]].response = None
    /\ outgoing[s] = MbapEncode(txns[cur[s]].transaction_id,
                                txns[cur[s]].unit_id, txns[cur[s]].response)

\* C4: after a bus failure or an expired wait the handler sends one frame:
\* transaction id, protocol 0, length 3, unit id, function code | 0x80, 0x0B;
\* and a frame is sent only by a handler leaving Writing, one per request.
C4_ExceptionMapping ==
  /\ [] ( \A s \in Sessions :
            (pc[s] = "Writing"
               /\ (txns[cur[s]].error # NoError
                     \/ txns[cur[s]].waitResult = "timeout")) =>
              LET r == txns[cur[s]] IN
              outgoing[s] = << r.transaction_id \div 256, r.transaction_id % 256,
                               0, 0, 0, 3, r.unit_id,
                               (r.pdu[1] % 128) + 128, 11 >> )
  /\ [][ \A s \in Sessions :
           sent'[s] # sent[s] =>
             /\ pc[s] = "Writing" /\ pc'[s] = "ReadingHeader"
             /\ sent'[s] = sent[s] + 1 ]_vars

\* C4 witness: a handler is about to answer a request the worker failed.
C4_Witness ==
  \E s \in Sessions :
    /\ pc[s] = "Writing"
    /\ txns[cur[s]].waitResult = "completed"
    /\ txns[cur[s]].error = "RTU timeout"

\* C5 (as claimed): when the last allowed attempt of a request reads a valid
\* frame after RetryCount - 1 failed attempts, its handler is still waiting
\* for it, so the client receives the success PDU.
C5_RetryThenSuccessDelivered ==
  [][ (wpc = "read" /\ attempt = RetryCount - 1 /\ wpc' = "loop") =>
        (cur[txns[wcur].owner] = wcur /\ txns[wcur].waitResult = "waiting")
    ]_vars

\* C6: when the worker completes a request whose handler has given up, the
\* worker returns to its loop, and no handler state, no response being sent
\* and no other request changes.
C6_LateCompletionHarmless ==
  [][ (wcur # 0 /\ txns[wcur].waitResult = "timeout" /\ wcur' # wcur) =>
        /\ wpc' = "loop"
        /\ pc' = pc /\ outgoing' = outgoing /\ sent' = sent /\ cur' = cur
        /\ \A j \in DOMAIN txns : j # wcur => txns'[j] = txns[j]
    ]_vars

\* C6 witness: the worker is about to call set_error on a request whose
\* session has timed out and already waits for a newer request.
C6_Witness ==
  /\ wcur # 0 /\ wpc = "attempt" /\ attempt = RetryCount /\ wtimer = 0
  /\ txns[wcur].waitResult = "timeout"
  /\ cur[txns[wcur].owner] \notin { 0, wcur }
  /\ pc[txns[wcur].owner] = "AwaitingBus"

\* C7 (as claimed): a handler that reads a header with a protocol id other
\* than 0 or a PDU length outside 1..253 closes the connection, sends
\* nothing and submits nothing.
C7_MalformedHeaderCloses ==
  [][ \A s \in Sessions :
        (pc[s] = "ReadingHeader" /\ Len(rx[s]) >= 7
           /\ ~ HeaderAccepted(Take(rx[s], 7)) /\ rx'[s] # rx[s]) =>
          (pc'[s] = "Closed" /\ sent' = sent /\ queue' = queue)
    ]_vars

\* C8 (as claimed): the handoff queue has a capacity that the clients'
\* frames can exhaust: it never holds as many requests as the clients can
\* send in total, the surplus being refused with exception 0x06.
C8_QueueBounded == Len(queue) < MaxFrames

\* C9 (as claimed): when the serial port cannot be opened at startup, the
\* main thread never gets past start_rtu_worker.
C9_FatalStartup == wpc = "dead" => spc \notin {"serving", "shutdown"}

\* C10: under fair scheduling a handler that waits for the bus always gets
\* on: it sends its response and reads the next header, whether or not the
\* worker is alive; and it never waits longer than the serial timeout plus
\* the slack of two seconds.
C10_SessionsNeverBlock ==
  /\ \A s \in Sessions : (pc[s] = "AwaitingBus") ~> (pc[s] = "ReadingHeader")
  /\ [] (\A s \in Sessions : waited[s] <= RtuTimeout + AwaitSlack)

\* C10 witness: a handler has waited out the whole window on a worker that
\* is dead or has left its loop.
C10_Witness ==
  \E s \in Sessions :
    /\ pc[s] = "AwaitingBus" /\ waited[s] = RtuTimeout + AwaitSlack
    /\ wpc \in {"dead", "exited"} /\ cur[s] \in Range(queue)

\* ------------------------------------------- the response read on its own
\* read_rtu_response applied to the bytes a device may put on the line after
\* a request of the worker: a unit id, a function-code byte, a third byte
\* (the byte count of the replies that carry one) and more bytes than any
\* reply shape takes; the normal replies of the environment; and beginnings
\* of them, cut off by the read timeout.
MaxByteCount == 2
ReplyCodes == { 1, 3, 4, 5, 6, 15, 16, 23, 65, 131, 134 }
RequestPdus ==
  { << 3, 0, 107, 0, 3 >>, << 6, 0, 1, 0, 3 >>, << 16, 0, 1, 0, 1, 2, 0, 3 >>,
    << 65, 0 >> }
LineBytes ==
  { << 17, fc, n >> \o [ i \in 1..(MaxByteCount + 5) |-> i ] :
      fc \in ReplyCodes, n \in 0..MaxByteCount }
    \cup WireReplies
    \cup { Take(ReadReply, k) : k \in 1..Len(ReadReply) }
    \cup { Take(WriteReply, k) : k \in 1..Len(WriteReply) }
    \cup { Take(ExceptionReply, k) : k \in 1..Len(ExceptionReply) }

ReadInit ==
  /\ InitServing
  /\ probe \in { [ kind |-> "read", request_pdu |-> q, avail |-> <<>>,
                    arrived |-> FALSE, done |-> FALSE,
                    result |-> [ response |-> None, short |-> FALSE, nread |-> 0 ] ] :
                  q \in RequestPdus }

\* the device's bytes reach the port's input buffer
LineDelivers ==
  /\ probe.kind = "read" /\ ~ probe.arrived
  /\ \E avail \in LineBytes :
       probe' = [ probe EXCEPT !.avail = avail, !.arrived = TRUE ]
  /\ UNCHANGED programVars

\* process_request: response_pdu = self.read_rtu_response(request)
ReadRtuResponse ==
  /\ probe.kind = "read" /\ probe.arrived /\ ~ probe.done
  /\ probe' = [ probe EXCEPT !.done = TRUE,
                  !.result = read_rtu_response(probe.avail, probe.request_pdu) ]
  /\ UNCHANGED programVars

ReadNext == LineDelivers \/ ReadRtuResponse
ReadSpec == ReadInit /\ [][ReadNext]_vars

\* ----------------------------------------- a device with one fixed answer
\* The gateway is serving, one client has sent one request frame, and the
\* device answers every attempt of the worker with the same bytes, kept in
\* probe.  Everything else runs as in the gateway.
ReplyInit ==
  /\ \E s \in Sessions : \E f \in { ReadFrame, WriteFrame } :
       rx = [ t \in Sessions |-> IF t = s THEN f ELSE <<>> ]
  /\ probe \in { [ kind |-> "line", avail |-> a ] : a \in LineBytes }
  /\ spc = "serving" /\ stimer = 0
  /\ wpc = "get" /\ running = TRUE /\ serialOpen = TRUE
  /\ wcur = 0 /\ rtu_frame = <<>> /\ attempt = 0 /\ last_error = NoError
  /\ nwrites = 0 /\ wtimer = 0 /\ busLast = 0
  /\ queue = <<>> /\ txns = <<>>
  /\ pc = [ t \in Sessions |-> "ReadingHeader" ]
  /\ hdr = [ t \in Sessions |-> NoHeader ]
  /\ cur = [ t \in Sessions |-> 0 ]
  /\ waited = [ t \in Sessions |-> 0 ]
  /\ outgoing = [ t \in Sessions |-> <<>> ]
  /\ sent = [ t \in Sessions |-> 0 ]
  /\ nframes = MaxFrames

\* process_request: response_pdu = self.read_rtu_response(request), over the
\* bytes of the device
ReadFixedAnswer ==
  /\ wpc = "read" /\ wtimer = 0
  /\ probe.kind = "line"
  /\ AttemptOutcome(read_rtu_response(probe.avail, txns[wcur].pdu))
  /\ UNCHANGED << probe, serverVars, running, busLast, queue, sessionVars, nframes >>

ReplyNext ==
  \/ WorkerLoop \/ WorkerGet \/ WorkerPollEmpty
  \/ BeginAttempt \/ TryWrite \/ ReadFixedAnswer \/ Reopen
  \/ \E s \in Sessions :
       RecvHeader(s) \/ RecvBody(s) \/ AwaitDone(s) \/ AwaitTimeout(s)
         \/ SendResponse(s)
  \/ Advance

ReplySpec == ReplyInit /\ [][ReplyNext]_vars

\* C11: a message followed by its crc16_calculate passes crc16_verify, and
\* with any one bit inverted it does not; the CRC of 11 03 00 6B 00 03 is
\* 0x8776 sent as 76 87 (initial value 0xFFFF, polynomial 0xA001 reflected,
\* no final XOR, low byte first).
C11_CrcRoundTrip ==
  probe.kind = "crc" =>
    /\ (probe.verified # "pending" =>
          (probe.verified = "valid" <=> probe.flipped = 0))
    /\ ((probe.frame # <<>> /\ probe.flipped = 0) =>
          /\ Len(probe.frame) = Len(probe.message) + 2
          /\ SubSeq(probe.frame, 1, Len(probe.message)) = probe.message)
    /\ ((probe.message = << 17, 3, 0, 107, 0, 3 >> /\ probe.frame # <<>>
           /\ probe.flipped = 0) =>
          probe.frame = << 17, 3, 0, 107, 0, 3, 118, 135 >>)

\* C11 witness: a frame with a bit of its high CRC byte inverted has been
\* verified and refused.
C11_Witness ==
  /\ probe.kind = "crc" /\ probe.verified = "invalid"
  /\ probe.flipped > 8 * (Len(probe.frame) - 1)

\* C12: a frame built by send_response from (transaction id, unit id, PDU of
\* 1..253 bytes) is big-endian transaction id, 00 00, big-endian 1 + |PDU|,
\* unit id, PDU; the handler that receives it accepts its header, and the
\* request it builds has exactly that transaction id, unit id and PDU, with
\* no byte left over.
C12_MbapRoundTrip ==
  (probe.kind = "mbap" /\ probe.session # 0) =>
    LET s == probe.session
        t == probe.transaction_id
        n == Len(probe.pdu) + 1
    IN  \/ /\ pc[s] = "ReadingHeader"
           /\ rx[s] = << t \div 256, t % 256, 0, 0, n \div 256, n % 256,
                         probe.unit_id >> \o probe.pdu
        \/ /\ pc[s] = "ReadingBody"
           /\ hdr[s] = [ transaction_id |-> t, unit_id |-> probe.unit_id,
                         pdu_length |-> Len(probe.pdu) ]
           /\ rx[s] = probe.pdu
        \/ /\ pc[s] = "AwaitingBus"
           /\ txns[cur[s]].transaction_id = t
           /\ txns[cur[s]].unit_id = probe.unit_id
           /\ txns[cur[s]].pdu = probe.pdu
           /\ rx[s] = <<>>

\* C12 witness: a frame with a two-byte transaction id and the longest PDU
\* has been decoded into a request.
C12_Witness ==
  /\ probe.kind = "mbap" /\ probe.session # 0
  /\ probe.transaction_id = 4660 /\ Len(probe.pdu) = 253
  /\ pc[probe.session] = "AwaitingBus"

\* response, error and completion event of a request
Outcome(r) == << r.response, r.error, r.event >>

\* C13: a request never has both a response and an error; its event is set
\* exactly when one of them is; and the three fields change only once, in
\* the step in which the worker completes the request it is executing.
C13_WriteOnceOutcome ==
  /\ [] (\A i \in DOMAIN txns :
            /\ ~ (txns[i].response # None /\ txns[i].error # NoError)
            /\ (txns[i].event <=>
                  (txns[i].response # None \/ txns[i].error # NoError)))
  /\ [][ \A i \in DOMAIN txns :
           (txns'[i].live /\ Outcome(txns'[i]) # Outcome(txns[i])) =>
             /\ i = wcur /\ wpc \in {"read", "attempt"} /\ wcur' = 0
             /\ ~ txns[i].event /\ txns'[i].event ]_vars

\* C13 witness: one request is completed with a response and not yet read by
\* its handler while the worker already executes the next one.
C13_Witness ==
  \E i \in DOMAIN txns :
    /\ txns[i].live /\ txns[i].event /\ txns[i].response # None
    /\ txns[i].error = NoError
    /\ pc[txns[i].owner] = "AwaitingBus" /\ cur[txns[i].owner] = i
    /\ wcur \notin { 0, i }

\* requests of session s that are queued or being executed and not completed
InFlight(s) ==
  { i \in DOMAIN txns :
      /\ txns[i].live /\ txns[i].owner = s /\ ~ txns[i].event
      /\ (i = wcur \/ i \in Range(queue)) }

\* C14 (as claimed): every session has at most one uncompleted request in
\* the queue or in the worker, also after its wait has timed out and it has
\* submitted its next request.
C14_OneInFlightPerSession ==
  \A s \in Sessions : Cardinality(InFlight(s)) <= 1

\* C15 (as claimed): a request that the worker starts in the instant of its
\* put is completed by the worker before the wait of its handler expires:
\* the handler's wait never returns by timeout.
C15_AwaitCoversRetryBudget ==
  \A s \in Sessions :
    cur[s] # 0 => txns[cur[s]].waitResult # "timeout"

\* C16 (as claimed): once shutdown() has called stop() on the worker, the
\* worker takes no further request from the queue.
C16_ShutdownStopsDraining ==
  [][ spc = "shutdown" => ~ (wcur = 0 /\ wcur' # 0) ]_vars

\* C17: the worker writes a request at most RetryCount times, never after
\* the request is completed; a serial error leads to close, sleep and reopen
\* and the attempt counter grows by one when the recovery is over, whether
\* or not the reopen succeeded.
C17_AttemptAccounting ==
  /\ [] ( /\ nwrites <= RetryCount /\ attempt <= RetryCount
          /\ nwrites <= attempt + 1
          /\ (wpc \in {"attempt", "try"} => nwrites <= attempt) )
  /\ [][ /\ (wpc # "recover" /\ wpc' = "recover") =>
             /\ wpc \in {"try", "read"}
             /\ serialOpen' = FALSE /\ wtimer' = RecoverySleep
             /\ attempt' = attempt /\ last_error' = "Serial error"
         /\ (wpc = "recover" /\ wpc' # "recover") =>
             (wpc' = "attempt" /\ attempt' = attempt + 1 /\ wcur' = wcur)
         /\ (nwrites' # nwrites /\ nwrites' # 0) =>
             /\ nwrites' = nwrites + 1 /\ busLast' = wcur
             /\ wcur # 0 /\ wcur' = wcur /\ ~ txns[wcur].event
             /\ attempt < RetryCount ]_vars

\* C17 witness: the last attempt of a request ended in a serial error and a
\* failed reopen, after two attempts that wrote the frame.
C17_Witness ==
  /\ wpc = "attempt" /\ attempt = RetryCount /\ nwrites = RetryCount - 1
  /\ last_error = "Serial error" /\ ~ serialOpen

\* C18: once in its loop the worker thread ends only at the loop test with
\* running false, never on a serial error; every request it takes from the
\* queue is eventually completed; and a request the port never let it write
\* is completed with the serial error.
C18_WorkerSurvives ==
  /\ (wcur # 0) ~> (wcur = 0)
  /\ [][ /\ (wpc \notin {"dead", "exited"} /\ wpc' \in {"dead", "exited"}) =>
             (wpc = "setup" \/ (wpc = "loop" /\ ~ running /\ wcur = 0))
         /\ (wcur # 0 /\ wcur' = 0 /\ nwrites = 0) =>
             /\ wpc = "attempt" /\ attempt = RetryCount
             /\ last_error = "Serial error"
             /\ (txns'[wcur].live =>
                   (txns'[wcur].error = "Serial error"
                      /\ txns'[wcur].response = None)) ]_vars

\* C18 witness: with the port never opening, the worker has failed the
\* first request and is about to fail the second; no frame was ever written.
C18_Witness ==
  /\ wcur = 2 /\ busLast = 0 /\ running
  /\ wpc = "attempt" /\ attempt = RetryCount /\ ~ serialOpen

\* C19: a handler moves only NotConnected -> ReadingHeader -> ReadingBody ->
\* AwaitingBus -> Writing -> ReadingHeader, or from a read to Closed; a
\* request is created and queued exactly in the step ReadingBody ->
\* AwaitingBus, a frame is sent exactly in the step Writing ->
\* ReadingHeader, and a handler in Writing has a frame to send for its
\* request.
C19_SessionStateMachine ==
  /\ [] (\A s \in Sessions :
            /\ (pc[s] \in {"AwaitingBus", "Writing"} <=> cur[s] # 0)
            /\ (pc[s] = "Writing" <=> outgoing[s] # <<>>))
  /\ [][ /\ \A s \in Sessions :
             /\ pc'[s] # pc[s] =>
                  << pc[s], pc'[s] >> \in
                    { << "NotConnected", "ReadingHeader" >>,
                      << "ReadingHeader", "ReadingBody" >>,
                      << "ReadingBody", "AwaitingBus" >>,
                      << "AwaitingBus", "Writing" >>,
                      << "Writing", "ReadingHeader" >>,
                      << "ReadingHeader", "Closed" >>,
                      << "ReadingBody", "Closed" >> }
             /\ (sent'[s] # sent[s] <=>
                   (pc[s] = "Writing" /\ pc'[s] = "ReadingHeader"))
             /\ sent'[s] \in { sent[s], sent[s] + 1 }
             /\ (cur'[s] \notin { 0, cur[s] } <=>
                   (pc[s] = "ReadingBody" /\ pc'[s] = "AwaitingBus"))
             /\ (cur'[s] \notin { 0, cur[s] } =>
                   /\ cur'[s] = Len(txns) + 1 /\ Len(txns') = Len(txns) + 1
                   /\ queue' = Append(queue, cur'[s]))
         /\ Len(txns') # Len(txns) =>
             \E s \in Sessions : pc[s] = "ReadingBody" /\ pc'[s] = "AwaitingBus"
       ]_vars

\* C19 witness: one handler has answered two requests, the second one a
\* write, and reads the next header.
C19_Witness ==
  \E s \in Sessions :
    /\ sent[s] = 2 /\ pc[s] = "ReadingHeader" /\ Len(txns) = 2
    /\ busLast = 2

\* C20: when no read is cut short, the worker reads 5 bytes of a reply whose
\* function-code byte has bit 7 set, 8 bytes when the function code of the
\* request is 5, 6, 15 or 16, and otherwise 5 bytes plus the value of the
\* byte that follows the function code of the reply.
C20_ResponseShape ==
  (probe.kind = "read" /\ probe.done /\ ~ probe.result.short) =>
    probe.result.nread =
      IF probe.avail[2] >= 128 THEN 5
      ELSE IF probe.request_pdu[1] \in { 5, 6, 15, 16 } THEN 8
      ELSE 1 + 1 + 1 + probe.avail[3] + 2

\* C22: the worker does not write the frame of a request whose handler has
\* given up the wait and has already sent exception 0x0B for it.
C22_NoWriteForAbandoned ==
  [][ (nwrites' = nwrites + 1 /\ wcur # 0) =>
        ~ ( /\ txns[wcur].waitResult = "timeout"
            /\ cur[txns[wcur].owner] # wcur ) ]_vars

\* C23: every request a handler submits carries the transaction id, the
\* unit id and the PDU of a frame the client sent whose header is
\* acceptable; nothing is submitted from the bytes of a rejected frame.
C23_FramingPreserved ==
  probe.kind = "stream" =>
    \A i \in DOMAIN txns :
      txns[i].live =>
        \E k \in DOMAIN probe.frames :
          LET f == probe.frames[k] IN
            /\ Len(f) >= 7
            /\ HeaderAccepted(Take(f, 7))
            /\ txns[i].transaction_id = ParseHeader(Take(f, 7)).transaction_id
            /\ txns[i].unit_id = ParseHeader(Take(f, 7)).unit_id
            /\ txns[i].pdu = Drop(f, 7)

\* the lengths at which the bytes on the line form a frame whose last two
\* bytes are the CRC-16, low byte first, of the bytes before them
SealedLengths ==
  [ a \in LineBytes |->
      { k \in 4..Len(a) :
          << a[k - 1], a[k] >> = crc16_calculate(SubSeq(a, 1, k - 2)) } ]

\* C21: a request has a response only if the bytes on the line begin with a
\* frame whose last two bytes are the CRC-16 of the bytes before them, and
\* the response is that frame without its first byte and its last two; an
\* attempt whose read finds no such frame (short read, CRC mismatch) leaves
\* the request without a response and counts as a failed attempt; a sealed
\* exception frame becomes the response in that very attempt.
C21_OnlyVerifiedFramesOk ==
  /\ [] ( probe.kind = "line" =>
            \A i \in DOMAIN txns :
              (txns[i].live /\ txns[i].response # None) =>
                /\ txns[i].error = NoError
                /\ \E k \in SealedLengths[probe.avail] :
                     txns[i].response = SubSeq(probe.avail, 2, k - 2) )
  /\ [][ (probe.kind = "line" /\ wpc = "read" /\ wpc' # "read") =>
           /\ SealedLengths[probe.avail] = {} =>
                /\ wpc' = "attempt" /\ attempt' = attempt + 1
                /\ wcur' = wcur /\ txns' = txns
           /\ (5 \in SealedLengths[probe.avail] /\ probe.avail[2] >= 128) =>
                /\ wpc' = "loop" /\ wcur' = 0 /\ nwrites' = 0
                /\ (txns'[wcur].live =>
                      txns'[wcur].response = << probe.avail[2], probe.avail[3] >>)
       ]_vars

\* C21 witness: the device answered with a sealed exception frame and the
\* handler holds the frame to send with the exception PDU as it came.
C21_Witness ==
  /\ probe.kind = "line" /\ probe.avail = ExceptionReply
  /\ \E s \in Sessions :
       /\ pc[s] = "Writing" /\ cur[s] # 0
       /\ txns[cur[s]].response = << 131, 2 >>
       /\ outgoing[s] = MbapEncode(txns[cur[s]].transaction_id,
                                   txns[cur[s]].unit_id, << 131, 2 >>)

\* C24: a request has a response only if the frame on the line begins with
\* the unit id of the request and carries its function code, bit 7 ignored.
C24_ReplyMatchesRequest ==
  probe.kind = "line" =>
    \A i \in DOMAIN txns :
      (txns[i].live /\ txns[i].response # None) =>
        /\ probe.avail[1] = txns[i].unit_id
        /\ probe.avail[2] % 128 = txns[i].pdu[1]

====
